---- MODULE Spec2Model ----
(***************************************************************************)
(* Model of the client-side chat orchestration hook useChat                *)
(* (lib/hooks/use-chat, kept in src/unnamed/part_007) and of the server    *)
(* side it talks to.                                                       *)
(*                                                                         *)
(* The hook owns four pieces of React state: messages, isLoading, error    *)
(* and lastRequest.  Its callbacks sendMessage and regenerateLastMessage   *)
(* are memoised with useCallback and read isLoading and lastRequest from   *)
(* the closure of the render that created them, while every change to      *)
(* messages goes through a functional updater that sees the latest turn    *)
(* list.  The model therefore keeps the latest state in the variables      *)
(* messages, isLoading, error, lastRequest and the values captured by the  *)
(* callbacks of the last render in the variable closure; the action Render *)
(* is React re-rendering the hook.  Calls made before the next Render are  *)
(* calls made in the same event-loop turn.  Every updater runs once, as in *)
(* a production build.                                                     *)
(*                                                                         *)
(* State updates are applied in the order in which they are queued.  The   *)
(* updater sendMessage passes to setMessages is queued behind              *)
(* setIsLoading(true) and so runs in the next render, in its place among   *)
(* the updates of messages; the setLastRequest it calls is queued only     *)
(* then, behind every setLastRequest called earlier in the turn.  The      *)
(* variables hold the state the next render will arrive at.  The fetch of  *)
(* a request starts with its updater, so that its response arrives after   *)
(* that render.                                                            *)
(*                                                                         *)
(* A request to /api/chat stays in pending until its response arrives; the *)
(* .then or .catch and the .finally of its promise run as one step.  The   *)
(* field rendered of a pending request tells whether React has rendered    *)
(* since its call.  The fields prev, idle, clean and cleared are history:  *)
(* the turn list its call found, whether nothing was in flight then,       *)
(* whether no other operation has happened since, and whether              *)
(* clearMessages has run since.                                            *)
(*                                                                         *)
(* Strings whose characters matter (message contents, ids) are sequences   *)
(* of one-character strings or of digits.                                  *)
(*                                                                         *)
(* The server side is the provider registry (lib/ai/providers.ts), the     *)
(* chat service (lib/ai/chat-service.ts) and the handler of POST /api/chat *)
(* (src/unnamed/part_000).  They are functions of their arguments and of   *)
(* what the generation backend answers, and are written as operators.      *)
(*                                                                         *)
(* The chat interface (src/unnamed/part_001) adds the text field and its   *)
(* handleSend around the hook.                                             *)
(*                                                                         *)
(* Spec          the hook against a server that may answer anything        *)
(* SpecLive      the same where every request is answered in the end       *)
(* SpecDeep      the same with room for a third request                    *)
(* SpecServer    the server functions applied to request bodies            *)
(* SpecEndToEnd  the hook with the handler computing every response        *)
(* SpecInterface the hook driven through the chat interface                *)
(***************************************************************************)
EXTENDS Integers, Sequences, FiniteSets

\* ---------------------------------------------------------------- bounds
\* total number of POST /api/chat requests one behaviour may issue
MaxRequests == 2
\* the same for the behaviours of SpecDeep, which need a third request
MaxRequestsDeep == 3
\* number of millisecond ticks the clock may advance
MaxClock == 1
\* value of Date.now() at construction; larger than the id "1" of the
\* greeting turn
Epoch == 2

\* ---------------------------------------------------------------- values
\* null of the error state and the absent provider field of a user turn
null == "null"

\* null of the lastRequest state
NoLastRequest == [ isNull |-> TRUE ]

\* DEMO_API_KEYS of the chat interface
DEMO_API_KEYS ==
    [ k \in { "OPENAI_API_KEY", "ANTHROPIC_API_KEY", "GOOGLE_AI_API_KEY", "GROQ_API_KEY" }
        |-> "demo-key" ]

\* a credential map without any key
NoApiKeys == [ k \in {} |-> "" ]

\* the argument lists sendMessage is called with: content (blank, empty,
\* with and without surrounding blanks), provider id, credential map
SendInputs ==
    { << << "x" >>, "gpt-4", DEMO_API_KEYS >>,
      << << " ", "y", " " >>, "claude-3", NoApiKeys >>,
      << << " " >>, "gpt-4", DEMO_API_KEYS >>,
      << << >>, "claude-3", DEMO_API_KEYS >> }

\* bodies of the HTTP responses of POST /api/chat as makeApiCall sees them:
\* ok with a content, or not ok with an error text (possibly absent: "")
Responses ==
    [ ok : {TRUE}, content : { <<"h", "i">> }, error : {""} ]
      \cup [ ok : {FALSE}, content : { <<>> }, error : { "", "Internal server error" } ]

\* ---------------------------------------------------------------- strings
IsSpace(c) == c = " "

\* String.prototype.trim
RECURSIVE TrimStart(_)
TrimStart(s) ==
    IF s # <<>> /\ IsSpace(Head(s)) THEN TrimStart(Tail(s)) ELSE s

RECURSIVE TrimEnd(_)
TrimEnd(s) ==
    IF s # <<>> /\ IsSpace(s[Len(s)]) THEN TrimEnd(SubSeq(s, 1, Len(s) - 1)) ELSE s

Trim(s) == TrimEnd(TrimStart(s))

\* Number.prototype.toString for a non-negative integer: its decimal digits
RECURSIVE toString(_)
toString(n) ==
    IF n < 10 THEN << n >> ELSE toString(n \div 10) \o << n % 10 >>

\* Array.prototype.slice(0, -1)
SliceOffLast(arr) ==
    IF Len(arr) = 0 THEN << >> ELSE SubSeq(arr, 1, Len(arr) - 1)

\* ---------------------------------------------------------------- JavaScript values
\* String.prototype.toLowerCase, for the letters the company names use
LowerCase ==
    [ c \in { "A", "G", "I", "O" } |->
        CASE c = "A" -> "a" [] c = "G" -> "g" [] c = "I" -> "i" [] c = "O" -> "o" ]

RECURSIVE toLowerCase(_)
toLowerCase(s) ==
    IF s = "" THEN ""
    ELSE (IF Head(s) \in DOMAIN LowerCase THEN LowerCase[Head(s)] ELSE Head(s))
           \o toLowerCase(Tail(s))

\* String.prototype.includes
includes(s, searchString) ==
    \E i \in 1 .. (Len(s) - Len(searchString) + 1) :
        SubSeq(s, i, i + Len(searchString) - 1) = searchString

\* a call that returned a value, and a call that threw
Returned(value) == [ threw |-> FALSE, value |-> value ]
Thrown(name, message) ==
    [ threw |-> TRUE, error |-> [ name |-> name, message |-> message ] ]

\* values of a parsed JSON body; undefined is a property the body lacks
undefined == [ type |-> "undefined" ]
JsonNull == [ type |-> "null" ]
JsonString(s) == [ type |-> "string", string |-> s ]
JsonBoolean(b) == [ type |-> "boolean", boolean |-> b ]
JsonArray(a) == [ type |-> "array", items |-> a ]
JsonObject(o) == [ type |-> "object", entries |-> o ]

\* the typeof operator
typeof(v) == IF v.type \in { "array", "null" } THEN "object" ELSE v.type

\* ToBoolean: !v is ~Truthy(v)
Truthy(v) ==
    /\ v.type \notin { "undefined", "null" }
    /\ v.type = "string" => v.string # ""
    /\ v.type = "boolean" => v.boolean

\* Array.isArray
IsArray(v) == v.type = "array"

\* the string-keyed properties of a value used as a credential map: those
\* of a plain object; an array has none of the credential names
Properties(v) == IF v.type = "object" THEN v.entries ELSE [ k \in {} |-> "" ]

\* !!apiKeys[key] on a credential map: the key is present and not empty
HasKey(apiKeys, key) == key \in DOMAIN apiKeys /\ apiKeys[key] # ""

\* ---------------------------------------------------------------- providers
AI_PROVIDERS ==
    [ id \in { "gpt-4", "gpt-4-vision", "claude-3", "gemini-pro", "groq-llama" } |->
        CASE id = "gpt-4" ->
               [ id |-> "gpt-4", name |-> "GPT-4", company |-> "OpenAI",
                 models |-> << "gpt-4", "gpt-4-turbo" >>, requiresApiKey |-> TRUE ]
          [] id = "gpt-4-vision" ->
               [ id |-> "gpt-4-vision", name |-> "GPT-4 Vision", company |-> "OpenAI",
                 models |-> << "gpt-4-vision-preview", "gpt-4-turbo" >>,
                 requiresApiKey |-> TRUE ]
          [] id = "claude-3" ->
               [ id |-> "claude-3", name |-> "Claude 3", company |-> "Anthropic",
                 models |-> << "claude-3-opus-20240229", "claude-3-sonnet-20240229",
                               "claude-3-haiku-20240307" >>,
                 requiresApiKey |-> TRUE ]
          [] id = "gemini-pro" ->
               [ id |-> "gemini-pro", name |-> "Gemini Pro", company |-> "Google",
                 models |-> << "gemini-pro", "gemini-pro-vision" >>,
                 requiresApiKey |-> TRUE ]
          [] id = "groq-llama" ->
               [ id |-> "groq-llama", name |-> "Llama 3 (Groq)", company |-> "Groq",
                 models |-> << "llama3-70b-8192", "llama3-8b-8192" >>,
                 requiresApiKey |-> TRUE ] ]

\* AI_PROVIDERS is written as an object literal, so besides its own five
\* properties it answers to the names every object inherits
ObjectPrototypeMembers ==
    { "constructor", "hasOwnProperty", "isPrototypeOf", "propertyIsEnumerable",
      "toLocaleString", "toString", "valueOf", "__proto__" }

\* AI_PROVIDERS[providerId]: a descriptor, an inherited member (truthy, and
\* without a company), or undefined
ProviderLookup(providerId) ==
    IF providerId \in DOMAIN AI_PROVIDERS
      THEN [ kind |-> "provider", provider |-> AI_PROVIDERS[providerId] ]
      ELSE IF providerId \in ObjectPrototypeMembers
             THEN [ kind |-> "inherited" ]
             ELSE [ kind |-> "undefined" ]

\* provider.company.toLowerCase() on a value that has no company
NoCompany ==
    Thrown("TypeError", "Cannot read properties of undefined (reading 'toLowerCase')")

\* variant: any credential at all validates
validateApiKeys_AnyKey(providerId, apiKeys) ==
    LET found == ProviderLookup(providerId)
    IN  IF found.kind = "undefined" THEN Returned(FALSE)
        ELSE IF found.kind = "inherited" THEN NoCompany
        ELSE Returned(\E key \in DOMAIN apiKeys : HasKey(apiKeys, key))

validateApiKeys(providerId, apiKeys) ==
    LET found == ProviderLookup(providerId)
    IN  IF found.kind = "undefined" THEN Returned(FALSE)
        ELSE IF found.kind = "inherited" THEN NoCompany
        ELSE LET company == toLowerCase(found.provider.company)
             IN  CASE company = "openai" -> Returned(HasKey(apiKeys, "OPENAI_API_KEY"))
                   [] company = "anthropic" ->
                        Returned(HasKey(apiKeys, "ANTHROPIC_API_KEY"))
                   [] company = "google" ->
                        Returned(HasKey(apiKeys, "GOOGLE_AI_API_KEY"))
                   [] company = "groq" -> Returned(HasKey(apiKeys, "GROQ_API_KEY"))
                   [] OTHER -> Returned(FALSE)

\* the model handle an SDK factory (openai, anthropic, google, groq) builds
Client(sdk, modelId, apiKey) ==
    [ sdk |-> sdk, modelId |-> modelId, settings |-> [ apiKey |-> apiKey ] ]

\* variant: the client is built without looking at the credential
CaseOf_NoKeyCheck(sdk, provider, apiKeys, key, message) ==
    LET client == Client(sdk, provider.models[1],
                         IF key \in DOMAIN apiKeys THEN apiKeys[key] ELSE "")
    IN  [ outcome |-> Returned(client), clients |-> << client >> ]

\* variant: the client is built for the second model of the descriptor
CaseOf_SecondModel(sdk, provider, apiKeys, key, message) ==
    IF ~HasKey(apiKeys, key)
      THEN [ outcome |-> Thrown("Error", message), clients |-> << >> ]
      ELSE LET client == Client(sdk, provider.models[2], apiKeys[key])
           IN  [ outcome |-> Returned(client), clients |-> << client >> ]

\* one case of the switch of getAIModel: the credential test, then the
\* factory call on the first model of the descriptor
CaseOf(sdk, provider, apiKeys, key, message) ==
    IF ~HasKey(apiKeys, key)
      THEN [ outcome |-> Thrown("Error", message), clients |-> << >> ]
      ELSE LET client == Client(sdk, provider.models[1], apiKeys[key])
           IN  [ outcome |-> Returned(client), clients |-> << client >> ]

\* getAIModel: what it returns or throws, and the clients it constructed
getAIModel(providerId, apiKeys) ==
    LET found == ProviderLookup(providerId)
    IN  IF found.kind = "undefined"
          THEN [ outcome |-> Thrown("Error", "Unknown provider: " \o providerId),
                 clients |-> << >> ]
        ELSE IF found.kind = "inherited"
          THEN [ outcome |-> NoCompany, clients |-> << >> ]
        ELSE LET provider == found.provider
                 company == toLowerCase(provider.company)
             IN  CASE company = "openai" ->
                        CaseOf("openai", provider, apiKeys, "OPENAI_API_KEY",
                               "OpenAI API key not configured")
                   [] company = "anthropic" ->
                        CaseOf("anthropic", provider, apiKeys, "ANTHROPIC_API_KEY",
                               "Anthropic API key not configured")
                   [] company = "google" ->
                        CaseOf("google", provider, apiKeys, "GOOGLE_AI_API_KEY",
                               "Google AI API key not configured")
                   [] company = "groq" ->
                        CaseOf("groq", provider, apiKeys, "GROQ_API_KEY",
                               "Groq API key not configured")
                   [] OTHER ->
                        [ outcome |-> Thrown("Error", "Unsupported provider: "
                                                        \o provider.company),
                          clients |-> << >> ]

\* ---------------------------------------------------------------- chat service
\* error instanceof Error; anything else that is thrown is "NotAnError"
InstanceOfError(e) == e.name # "NotAnError"

\* error instanceof Error ? error.message : fallback
MessageOr(e, fallback) == IF InstanceOfError(e) THEN e.message ELSE fallback

\* variant: the request's turns reach the backend without the first one
BackendMessages_DropFirst(turns) ==
    [ i \in 1 .. (Len(turns) - 1) |->
        [ role |-> turns[i + 1].role, content |-> turns[i + 1].content ] ]

\* request.messages.map(msg => ({ role, content }))
BackendMessages(turns) ==
    [ i \in 1 .. Len(turns) |-> [ role |-> turns[i].role, content |-> turns[i].content ] ]

\* generateChatResponse and streamChatResponse, which differ in the backend
\* function they await and in their fallback text: generation is what that
\* function (generateText or streamText) returns or throws; calls are the
\* arguments it was invoked with
ChatResponse(chatRequest, generation, fallback) ==
    LET model == getAIModel(chatRequest.providerId, chatRequest.apiKeys)
        call == [ model |-> model.outcome.value,
                  messages |-> BackendMessages(chatRequest.messages) ]
    IN  IF model.outcome.threw
          THEN [ outcome |-> Thrown("Error", MessageOr(model.outcome.error, fallback)),
                 calls |-> << >> ]
        ELSE IF generation.threw
          THEN [ outcome |-> Thrown("Error", MessageOr(generation.error, fallback)),
                 calls |-> << call >> ]
        ELSE [ outcome |-> Returned([ content |-> generation.value.text ]),
               calls |-> << call >> ]

generateChatResponse(chatRequest, generation) ==
    ChatResponse(chatRequest, generation, "Failed to generate response")

streamChatResponse(chatRequest, generation) ==
    ChatResponse(chatRequest, generation, "Failed to stream response")

\* ---------------------------------------------------------------- POST /api/chat
\* NextResponse.json({ error }, { status }); calls are the backend
\* invocations the handler made on the way
ErrorResponse(status, text, calls) ==
    [ status |-> status, error |-> text, content |-> << >>, calls |-> calls ]

\* the 200 response carrying a ChatResponse (or its stream)
OkResponse(response, calls) ==
    [ status |-> 200, error |-> "", content |-> response.content, calls |-> calls ]

\* variant: every failure is reported as a server error
CatchOf_Always500(e, calls) ==
    ErrorResponse(500, MessageOr(e, "Internal server error"), calls)

\* the catch block of the handler
CatchOf(e, calls) ==
    LET errorMessage == MessageOr(e, "Internal server error")
        statusCode == IF includes(errorMessage, "API key") THEN 401 ELSE 500
    IN  ErrorResponse(statusCode, errorMessage, calls)

\* the handler once the body has passed validation: the chat request, the
\* streaming or the complete response, and the catch block for what they throw
Generate(body, generation) ==
    LET chatRequest == [ messages |-> body.messages.items,
                         providerId |-> body.providerId.string,
                         apiKeys |-> Properties(body.apiKeys) ]
        response == IF Truthy(body.stream)
                      THEN streamChatResponse(chatRequest, generation)
                      ELSE generateChatResponse(chatRequest, generation)
    IN  IF response.outcome.threw
          THEN CatchOf(response.outcome.error, response.calls)
          ELSE OkResponse(response.outcome.value, response.calls)

\* variant: the credential map is looked at before the provider id
POST_KeysFirst(body, generation) ==
    IF ~Truthy(body.messages) \/ ~IsArray(body.messages)
         \/ Len(body.messages.items) = 0
      THEN ErrorResponse(400, "Messages array is required and cannot be empty", << >>)
    ELSE IF ~Truthy(body.apiKeys) \/ typeof(body.apiKeys) # "object"
      THEN ErrorResponse(400, "API keys object is required", << >>)
    ELSE IF ~Truthy(body.providerId)
      THEN ErrorResponse(400, "Provider ID is required", << >>)
    ELSE LET providerId == body.providerId.string
             valid == validateApiKeys(providerId, Properties(body.apiKeys))
         IN  IF valid.threw THEN CatchOf(valid.error, << >>)
             ELSE IF ~valid.value
               THEN ErrorResponse(400, "API key not configured for provider: "
                                         \o providerId, << >>)
             ELSE Generate(body, generation)

\* the handler of POST /api/chat for a parsed body, given what the
\* generation backend answers if it is invoked
POST(body, generation) ==
    IF ~Truthy(body.messages) \/ ~IsArray(body.messages)
         \/ Len(body.messages.items) = 0
      THEN ErrorResponse(400, "Messages array is required and cannot be empty", << >>)
    ELSE IF ~Truthy(body.providerId)
      THEN ErrorResponse(400, "Provider ID is required", << >>)
    ELSE IF ~Truthy(body.apiKeys) \/ typeof(body.apiKeys) # "object"
      THEN ErrorResponse(400, "API keys object is required", << >>)
    ELSE LET providerId == body.providerId.string
             valid == validateApiKeys(providerId, Properties(body.apiKeys))
         IN  IF valid.threw THEN CatchOf(valid.error, << >>)
             ELSE IF ~valid.value
               THEN ErrorResponse(400, "API key not configured for provider: "
                                         \o providerId, << >>)
             ELSE Generate(body, generation)

\* ---------------------------------------------------------------- server inputs
\* provider ids a caller may pass: the catalog's, ids that differ from them
\* in letter case, names every object inherits, an unknown id, the empty id
ProviderIds ==
    DOMAIN AI_PROVIDERS
      \cup { "GPT-4", "Claude-3", "constructor", "toString", "mistral", "" }

CredentialKeys ==
    { "OPENAI_API_KEY", "ANTHROPIC_API_KEY", "GOOGLE_AI_API_KEY", "GROQ_API_KEY" }

\* credential maps: each key absent, empty or set
CredentialMaps == UNION { [ keys -> { "", "sk" } ] : keys \in SUBSET CredentialKeys }

\* two turns as they arrive in a request body
Turn1 ==
    [ id |-> << 3 >>, content |-> << "x" >>, role |-> "user", timestamp |-> 3,
      provider |-> null ]
Turn2 ==
    [ id |-> << 4 >>, content |-> << "h", "i" >>, role |-> "assistant",
      timestamp |-> 3, provider |-> "gpt-4" ]

\* parsed request bodies of POST /api/chat: every field possibly absent or
\* of another type than the handler expects
Bodies ==
    [ messages : { undefined, JsonString("x"), JsonArray(<< >>),
                   JsonArray(<< Turn1 >>), JsonArray(<< Turn1, Turn2 >>) },
      providerId : { undefined } \cup { JsonString(id) : id \in ProviderIds },
      apiKeys : { undefined, JsonNull, JsonString("sk"), JsonArray(<< >>) }
                  \cup { JsonObject(m) : m \in CredentialMaps },
      stream : { undefined, JsonBoolean(TRUE) } ]

\* what the generation backend (generateText, streamText) answers: a text,
\* an error of the provider, or a thrown value that is not an Error
Generations ==
    { Returned([ text |-> << "h", "i" >> ]),
      Thrown("Error", "Incorrect API key provided"),
      Thrown("Error", "Rate limit exceeded"),
      Thrown("NotAnError", "API key") }

\* the body {} and the reply before any function was applied
NoRequest ==
    [ messages |-> undefined, providerId |-> undefined, apiKeys |-> undefined,
      stream |-> undefined ]
NoReply == [ fn |-> "none" ]

\* ---------------------------------------------------------------- state
VARIABLES
    messages,     \* useState<ChatMessage[]>: the ConversationState
    isLoading,    \* useState(false)
    error,        \* useState<string | null>
    lastRequest,  \* useState<{content, providerId, apiKeys} | null>
    closure,      \* isLoading and lastRequest as captured by the callbacks
                  \* of the last render
    pending,      \* the fetches to /api/chat that have not completed yet
    clock,        \* milliseconds elapsed since construction
    issued,       \* history: number of fetches to /api/chat made so far
    accepted,     \* history: number of send/regenerate calls that went to Sending
    request,      \* server side: the request body under study
    reply,        \* server side: what the last function applied to it gave
    inputText     \* chat interface: the state input behind the text field

vars == << messages, isLoading, error, lastRequest, closure, pending, clock,
           issued, accepted, request, reply, inputText >>

\* the state of the hook, and the state of the server-side functions
hook == << messages, isLoading, error, lastRequest, closure, pending, clock,
           issued, accepted >>
server == << request, reply >>
ui == << inputText >>

\* Date.now()
DateNow == Epoch + clock

\* the greeting turn the chat interface passes as initialMessages
Greeting ==
    [ id |-> << 1 >>, content |-> << "H" >>, role |-> "assistant",
      timestamp |-> Epoch, provider |-> "NexusAI" ]

\* initialMessages: the default [] and the chat interface's list
InitialMessageLists == { << >>, << Greeting >> }

\* history: requests that saw another operation before they completed
Disturbed(reqs) == { [ r EXCEPT !.clean = FALSE ] : r \in reqs }

\* the requests after a render: the queued updaters have run
Rendered(reqs) == { [ r EXCEPT !.rendered = TRUE ] : r \in reqs }

\* history: requests that were in flight when clearMessages ran
Cleared(reqs) == { [ r EXCEPT !.clean = FALSE, !.cleared = TRUE ] : r \in reqs }

Init ==
    /\ messages \in InitialMessageLists
    /\ isLoading = FALSE
    /\ error = null
    /\ lastRequest = NoLastRequest
    /\ closure = [ isLoading |-> FALSE, lastRequest |-> NoLastRequest ]
    /\ pending = {}
    /\ clock = 0
    /\ issued = 0
    /\ accepted = 0
    /\ request = NoRequest
    /\ reply = NoReply
    /\ inputText = << >>

\* ---------------------------------------------------------------- makeApiCall
\* variant: the POST is sent a second time
makeApiCall_Resend(requestBody) ==
    << [ url |-> "/api/chat", method |-> "POST", body |-> requestBody ],
       [ url |-> "/api/chat", method |-> "POST", body |-> requestBody ] >>

\* the fetches makeApiCall starts for one request body: a single POST
makeApiCall(requestBody) ==
    << [ url |-> "/api/chat", method |-> "POST", body |-> requestBody ] >>

\* the requests in flight after the fetches of one accepted operation started
Started(fetches, op, providerId, prev) ==
    { [ rid |-> issued + i, op |-> op, body |-> fetches[i].body,
        providerId |-> providerId, prev |-> prev, idle |-> pending = {},
        rendered |-> FALSE, clean |-> TRUE, cleared |-> FALSE ]
      : i \in 1 .. Len(fetches) }

\* variant: the error text of the response body is not read
Settle_IgnoreErrorText(resp) ==
    IF ~resp.ok
      THEN [ ok |-> FALSE, content |-> << >>, message |-> "Failed to send message" ]
      ELSE [ ok |-> TRUE, content |-> resp.content, message |-> "" ]

\* what the promise of makeApiCall settles to for an HTTP response
Settle(resp) ==
    IF ~resp.ok
      THEN [ ok |-> FALSE, content |-> << >>,
             message |-> IF resp.error = "" THEN "Failed to send message"
                                             ELSE resp.error ]
      ELSE [ ok |-> TRUE, content |-> resp.content, message |-> "" ]

\* ---------------------------------------------------------------- sendMessage
\* variant: only the empty string counts as blank
SendRejected_NoTrim(content) == content = << >> \/ closure.isLoading

\* the early return of sendMessage: blank content, or the isLoading of the
\* callback's closure
SendRejected(content) == Trim(content) = << >> \/ closure.isLoading

\* variant: the content is stored as typed
UserMessage_Untrimmed(content) ==
    [ id |-> toString(DateNow), content |-> content, role |-> "user",
      timestamp |-> DateNow, provider |-> null ]

\* the user turn sendMessage creates
UserMessage(content) ==
    [ id |-> toString(DateNow), content |-> Trim(content), role |-> "user",
      timestamp |-> DateNow, provider |-> null ]

\* updatedMessages of the setMessages updater of sendMessage
SendUpdated(prev, userMessage) == Append(prev, userMessage)

\* the assistant turn the .then of sendMessage creates
SendAssistantMessage(data, providerId) ==
    [ id |-> toString(DateNow + 1), content |-> data.content,
      role |-> "assistant", timestamp |-> DateNow, provider |-> providerId ]

\* variant: the reply replaces the last turn, as in regenerateLastMessage
SendThen_ReplaceLast(current, assistantMessage) ==
    SliceOffLast(current) \o << assistantMessage >>

\* setMessages updater of the .then of sendMessage
SendThen(current, assistantMessage) == Append(current, assistantMessage)

\* variant: the optimistic user turn is kept on failure
SendCatch_NoRollback(current) == current

\* setMessages updater of the .catch of sendMessage
SendCatch(current) == SliceOffLast(current)

SendMessage(content, providerId, apiKeys) ==
    IF SendRejected(content)
      THEN UNCHANGED vars
      ELSE LET userMessage == UserMessage(content)
               updatedMessages == SendUpdated(messages, userMessage)
               fetches == makeApiCall([ messages |-> updatedMessages,
                                        providerId |-> providerId,
                                        apiKeys |-> apiKeys, stream |-> FALSE ])
               started == Started(fetches, "send", providerId, messages)
           IN  /\ error' = null
               /\ isLoading' = TRUE
               /\ lastRequest' = [ content |-> content, providerId |-> providerId,
                                   apiKeys |-> apiKeys ]
               /\ messages' = updatedMessages
               /\ pending' = Disturbed(pending) \cup started
               /\ issued' = issued + Len(fetches)
               /\ accepted' = accepted + 1
               /\ UNCHANGED << closure, clock, server, ui >>

\* ---------------------------------------------------------------- regenerateLastMessage
\* the early return of regenerateLastMessage, on the closure's values
RegenerateRejected == closure.lastRequest = NoLastRequest \/ closure.isLoading

\* variant: the length test is off by one
RegenerateSkipped_OffByOne(currentMessages) == Len(currentMessages) < 1

\* the early return of the setMessages updater of regenerateLastMessage
RegenerateSkipped(currentMessages) == Len(currentMessages) < 2

\* messagesWithoutLast, which the updater of regenerateLastMessage returns
MessagesWithoutLast(currentMessages) == SliceOffLast(currentMessages)

\* the assistant turn the .then of regenerateLastMessage creates
RegenerateAssistantMessage(data, providerId) ==
    [ id |-> toString(DateNow), content |-> data.content,
      role |-> "assistant", timestamp |-> DateNow, provider |-> providerId ]

\* setMessages updater of the .then of regenerateLastMessage
RegenerateThen(current, assistantMessage) ==
    SliceOffLast(current) \o << assistantMessage >>

\* variant: the rollback of sendMessage copied into regenerateLastMessage
RegenerateCatch_Rollback(current) == SliceOffLast(current)

\* the .catch of regenerateLastMessage leaves the turn list alone
RegenerateCatch(current) == current

RegenerateLastMessage ==
    IF RegenerateRejected \/ RegenerateSkipped(messages)
      THEN UNCHANGED vars
      ELSE LET messagesWithoutLast == MessagesWithoutLast(messages)
               fetches == makeApiCall([ messages |-> messagesWithoutLast,
                                        providerId |-> closure.lastRequest.providerId,
                                        apiKeys |-> closure.lastRequest.apiKeys,
                                        stream |-> FALSE ])
               started == Started(fetches, "regenerate",
                                  closure.lastRequest.providerId, messages)
           IN  /\ error' = null
               /\ isLoading' = TRUE
               /\ messages' = messagesWithoutLast
               /\ pending' = Disturbed(pending) \cup started
               /\ issued' = issued + Len(fetches)
               /\ accepted' = accepted + 1
               /\ UNCHANGED << lastRequest, closure, clock, server, ui >>

\* ---------------------------------------------------------------- clearMessages
\* the sendMessage calls whose setMessages updater has not run yet
QueuedSends == { r \in pending : r.op = "send" /\ ~r.rendered }

\* setLastRequest(null): the state it leads to in the next render, where the
\* setLastRequest of a queued updater of sendMessage comes after it
SetLastRequestNull == IF QueuedSends # {} THEN lastRequest ELSE NoLastRequest

\* variant: a clear also ends the loading state
ClearMessages_ResetsLoading ==
    /\ messages' = << >>
    /\ error' = null
    /\ lastRequest' = SetLastRequestNull
    /\ isLoading' = FALSE
    /\ pending' = Cleared(pending)
    /\ UNCHANGED << closure, clock, issued, accepted, server, ui >>

ClearMessages ==
    /\ messages' = << >>
    /\ error' = null
    /\ lastRequest' = SetLastRequestNull
    /\ pending' = Cleared(pending)
    /\ UNCHANGED << isLoading, closure, clock, issued, accepted, server, ui >>

\* ---------------------------------------------------------------- completions
\* variant: without the .finally
Complete_NoFinally(r, resp) ==
    LET settled == Settle(resp)
    IN  /\ r \in pending
        /\ r.rendered
        /\ IF settled.ok
             THEN /\ messages' =
                       IF r.op = "send"
                         THEN SendThen(messages,
                                       SendAssistantMessage(settled, r.providerId))
                         ELSE RegenerateThen(messages,
                                       RegenerateAssistantMessage(settled, r.providerId))
                  /\ error' = error
             ELSE /\ error' = settled.message
                  /\ messages' =
                       IF r.op = "send" THEN SendCatch(messages)
                                        ELSE RegenerateCatch(messages)
        /\ isLoading' = isLoading
        /\ pending' = Disturbed(pending \ { r })
        /\ UNCHANGED << lastRequest, closure, clock, issued, accepted, server, ui >>

\* the response of one request arrives: .then or .catch, then .finally
Complete(r, resp) ==
    LET settled == Settle(resp)
    IN  /\ r \in pending
        /\ r.rendered
        /\ IF settled.ok
             THEN /\ messages' =
                       IF r.op = "send"
                         THEN SendThen(messages,
                                       SendAssistantMessage(settled, r.providerId))
                         ELSE RegenerateThen(messages,
                                       RegenerateAssistantMessage(settled, r.providerId))
                  /\ error' = error
             ELSE /\ error' = settled.message
                  /\ messages' =
                       IF r.op = "send" THEN SendCatch(messages)
                                        ELSE RegenerateCatch(messages)
        /\ isLoading' = FALSE
        /\ pending' = Disturbed(pending \ { r })
        /\ UNCHANGED << lastRequest, closure, clock, issued, accepted, server, ui >>

\* ---------------------------------------------------------------- environment
\* React renders the hook again: the callbacks are re-created over the
\* current isLoading and lastRequest
Render ==
    /\ \/ closure # [ isLoading |-> isLoading, lastRequest |-> lastRequest ]
       \/ pending # Rendered(pending)
    /\ closure' = [ isLoading |-> isLoading, lastRequest |-> lastRequest ]
    /\ pending' = Rendered(pending)
    /\ UNCHANGED << messages, isLoading, error, lastRequest, clock,
                    issued, accepted, server, ui >>

\* a millisecond passes
Tick ==
    /\ clock < MaxClock
    /\ clock' = clock + 1
    /\ UNCHANGED << messages, isLoading, error, lastRequest, closure, pending,
                    issued, accepted, server, ui >>

\* a behaviour issues at most limit requests to /api/chat
Budget(limit) == issued < limit

Next ==
    \/ \E input \in SendInputs :
          Budget(MaxRequests) /\ SendMessage(input[1], input[2], input[3])
    \/ Budget(MaxRequests) /\ RegenerateLastMessage
    \/ ClearMessages
    \/ \E r \in pending, resp \in Responses : Complete(r, resp)
    \/ Render
    \/ Tick

Spec == Init /\ [][Next]_vars

\* the request numbered rid is in flight
InFlight(rid) == \E r \in pending : r.rid = rid

\* every request is answered in the end, and React renders again after a
\* state change
Fairness ==
    /\ \A rid \in 1 .. MaxRequests :
          WF_vars(\E r \in pending, resp \in Responses :
                    r.rid = rid /\ Complete(r, resp))
    /\ WF_vars(Render)

\* the hook within one millisecond: what is asked of these behaviours does
\* not depend on the ids and timestamps the clock gives
LiveNext ==
    \/ \E input \in SendInputs :
          Budget(MaxRequests) /\ SendMessage(input[1], input[2], input[3])
    \/ Budget(MaxRequests) /\ RegenerateLastMessage
    \/ ClearMessages
    \/ \E r \in pending, resp \in Responses : Complete(r, resp)
    \/ Render

SpecLive == Init /\ [][LiveNext]_vars /\ Fairness

\* the same hook with room for a third request
DeepNext ==
    \/ \E input \in SendInputs :
          Budget(MaxRequestsDeep) /\ SendMessage(input[1], input[2], input[3])
    \/ Budget(MaxRequestsDeep) /\ RegenerateLastMessage
    \/ ClearMessages
    \/ \E r \in pending, resp \in Responses : Complete(r, resp)
    \/ Render
    \/ Tick

SpecDeep == Init /\ [][DeepNext]_vars

\* ---------------------------------------------------------------- hook and route together
\* JSON.stringify(requestBody) as the handler's request.json() reads it
Json(requestBody) ==
    [ messages |-> JsonArray(requestBody.messages),
      providerId |-> JsonString(requestBody.providerId),
      apiKeys |-> JsonObject(requestBody.apiKeys),
      stream |-> JsonBoolean(requestBody.stream) ]

\* the handler's response as fetch hands it to makeApiCall: response.ok
\* and the parsed body
HttpResponse(res) ==
    [ ok |-> res.status \in 200 .. 299, content |-> res.content, error |-> res.error ]

\* the handler answers request r, the backend answering generation if it
\* is asked, and the hook's promise callbacks run on that response
Serve(r, generation) ==
    Complete(r, HttpResponse(POST(Json(r.body), generation)))

EndToEndNext ==
    \/ \E input \in SendInputs :
          Budget(MaxRequests) /\ SendMessage(input[1], input[2], input[3])
    \/ Budget(MaxRequests) /\ RegenerateLastMessage
    \/ ClearMessages
    \/ \E r \in pending, generation \in Generations : Serve(r, generation)
    \/ Render
    \/ Tick

SpecEndToEnd == Init /\ [][EndToEndNext]_vars

\* ---------------------------------------------------------------- chat interface
\* the provider the interface starts with; the selector is left alone
selectedProvider == "gpt-4"

\* what the user types into the text field
Texts == { << "x" >>, << " ", "y", " " >>, << " " >> }

\* onChange of the text field; history: typing counts as an operation for
\* the requests in flight
TypeInput(text) ==
    /\ inputText # text
    /\ inputText' = text
    /\ pending' = Disturbed(pending)
    /\ UNCHANGED << messages, isLoading, error, lastRequest, closure, clock,
                    issued, accepted, server >>

\* the early return of handleSend, on the isLoading of the last render
HandleSendRejected == Trim(inputText) = << >> \/ closure.isLoading

\* setInput("") after the awaited sendMessage, which returns as soon as its
\* state updates are queued
AfterSend == << >>

\* handleSend with no uploaded files and no tool results: the guard, the
\* call of sendMessage with the trimmed text and everything that call does,
\* then the statements after the await
HandleSend ==
    /\ ~HandleSendRejected
    /\ LET messageContent == Trim(inputText)
           userMessage == UserMessage(messageContent)
           updatedMessages == SendUpdated(messages, userMessage)
           fetches == makeApiCall([ messages |-> updatedMessages,
                                    providerId |-> selectedProvider,
                                    apiKeys |-> DEMO_API_KEYS, stream |-> FALSE ])
           started == Started(fetches, "send", selectedProvider, messages)
       IN  /\ ~SendRejected(messageContent)
           /\ error' = null
           /\ isLoading' = TRUE
           /\ lastRequest' = [ content |-> messageContent,
                               providerId |-> selectedProvider,
                               apiKeys |-> DEMO_API_KEYS ]
           /\ messages' = updatedMessages
           /\ pending' = Disturbed(pending) \cup started
           /\ issued' = issued + Len(fetches)
           /\ accepted' = accepted + 1
           /\ inputText' = AfterSend
           /\ UNCHANGED << closure, clock, server >>

InterfaceNext ==
    \/ \E text \in Texts : TypeInput(text)
    \/ Budget(MaxRequests) /\ HandleSend
    \/ Budget(MaxRequests) /\ RegenerateLastMessage
    \/ ClearMessages
    \/ \E r \in pending, resp \in Responses : Complete(r, resp)
    \/ Render
    \/ Tick

SpecInterface == Init /\ [][InterfaceNext]_vars

\* ---------------------------------------------------------------- server functions
\* the server-side functions applied to a request body drawn from Bodies;
\* the hook stays as constructed
ServerInit ==
    /\ messages = << >>
    /\ isLoading = FALSE
    /\ error = null
    /\ lastRequest = NoLastRequest
    /\ closure = [ isLoading |-> FALSE, lastRequest |-> NoLastRequest ]
    /\ pending = {}
    /\ clock = 0
    /\ issued = 0
    /\ accepted = 0
    /\ request \in Bodies
    /\ reply = NoReply
    /\ inputText = << >>

\* the arguments have the types of the signature (string, Record)
WellTyped == request.providerId.type = "string" /\ request.apiKeys.type = "object"

ValidateApiKeys ==
    /\ WellTyped
    /\ reply' = [ fn |-> "validateApiKeys",
                  result |-> validateApiKeys(request.providerId.string,
                                             request.apiKeys.entries) ]
    /\ UNCHANGED << hook, ui, request >>

GetAIModel ==
    /\ WellTyped
    /\ reply' = [ fn |-> "getAIModel",
                  result |-> getAIModel(request.providerId.string,
                                        request.apiKeys.entries) ]
    /\ UNCHANGED << hook, ui, request >>

Post(generation) ==
    /\ reply' = [ fn |-> "POST", generation |-> generation,
                  result |-> POST(request, generation) ]
    /\ UNCHANGED << hook, ui, request >>

ServerNext ==
    \/ ValidateApiKeys
    \/ GetAIModel
    \/ \E generation \in Generations : Post(generation)

SpecServer == ServerInit /\ [][ServerNext]_vars

\* ---------------------------------------------------------------- properties
\* the steps in which the response resp completes request r
CompleteStep(r, resp) == r \notin pending' /\ Complete(r, resp)

\* r is a request of operation op that has seen no other operation (accepted
\* call, clear or completion) since its call was accepted
Alone(r, op) == r.op = op /\ r.clean

\* the message a failed response is reported with
FailureMessage(resp) ==
    IF resp.error = "" THEN "Failed to send message" ELSE resp.error

Roles(turns) == [ i \in 1 .. Len(turns) |-> turns[i].role ]

\* C1: a sendMessage accepted in Idle whose request succeeds before anything
\* else happens leaves every earlier turn in place and unchanged and adds
\* exactly two turns, a user turn followed by an assistant turn.
C1_SendAppendsTwo ==
    [][ \A r \in pending, resp \in Responses :
          (Alone(r, "send") /\ r.idle /\ resp.ok /\ CompleteStep(r, resp)) =>
              LET n == Len(r.prev)
              IN  /\ Len(messages') = n + 2
                  /\ SubSeq(messages', 1, n) = r.prev
                  /\ messages'[n + 1].role = "user"
                  /\ messages'[n + 2].role = "assistant" ]_vars

\* two sends, each answered before anything else happened: the greeting and
\* two user/assistant pairs
C1_Witness ==
    /\ accepted = 2
    /\ pending = {}
    /\ Len(messages) = 5
    /\ messages[1] = Greeting
    /\ Roles(messages) = << "assistant", "user", "assistant", "user", "assistant" >>

\* C2: a sendMessage whose request fails before anything else happens leaves
\* the turn list exactly as it was before the call, and the hook is Idle.
C2_FailedSendRollsBack ==
    [][ \A r \in pending, resp \in Responses :
          (Alone(r, "send") /\ ~resp.ok /\ CompleteStep(r, resp)) =>
              /\ messages' = r.prev
              /\ ~isLoading' ]_vars

\* the only operation so far was a send, it failed, and the greeting is the
\* whole list again
C2_Witness ==
    /\ accepted = 1
    /\ pending = {}
    /\ error # null
    /\ lastRequest # NoLastRequest
    /\ messages = << Greeting >>
    /\ ~isLoading

\* C3: a call of sendMessage made while an accepted request has not completed
\* appends no turn and issues no request.
C3_SingleFlightSend ==
    [][ \A input \in SendInputs :
          (pending # {} /\ SendMessage(input[1], input[2], input[3])) =>
              /\ messages' = messages
              /\ issued' = issued ]_vars

\* C4: at most one request to /api/chat is in flight.
C4_AtMostOneInFlight == Cardinality(pending) <= 1

\* C5: a regenerateLastMessage accepted on n >= 2 turns whose request succeeds
\* before anything else happens leaves n turns: the first n-1 turns as they
\* were, followed by one new assistant turn.
C5_RegenerateReplacesLast ==
    [][ \A r \in pending, resp \in Responses :
          (Alone(r, "regenerate") /\ resp.ok /\ Len(r.prev) >= 2
             /\ CompleteStep(r, resp)) =>
              LET n == Len(r.prev)
              IN  /\ Len(messages') = n
                  /\ SubSeq(messages', 1, n - 1) = SubSeq(r.prev, 1, n - 1)
                  /\ messages'[n].role = "assistant" ]_vars

\* C6: regenerateLastMessage called on fewer than two turns changes neither
\* the turn list, the error, the loading flag nor the remembered request, and
\* issues no request.
C6_RegenerateNeedsTwoTurns ==
    [][ (Len(messages) < 2 /\ RegenerateLastMessage) =>
            UNCHANGED << messages, error, isLoading, lastRequest, pending,
                         issued >> ]_vars

\* regenerateLastMessage passes its closure guard and its updater meets a
\* single turn, with the error of a failed send on display
C6_Witness ==
    /\ Len(messages) = 1
    /\ closure.lastRequest # NoLastRequest
    /\ ~closure.isLoading
    /\ ~isLoading
    /\ error # null
    /\ pending = {}

C8_ClearResets ==
    [][ ClearMessages =>
            /\ messages' = << >>
            /\ lastRequest' = NoLastRequest
            /\ error' = null ]_vars

\* C9: the number of requests issued equals the number of accepted
\* send/regenerate operations; rejected calls and failures add none.
C9_OneRequestPerAcceptance == issued = accepted

\* two operations were accepted, a request has failed and none is in flight
C9_Witness ==
    /\ accepted = 2
    /\ issued = 2
    /\ error # null
    /\ pending = {}

\* C10: the ids of the turns of the list are pairwise distinct.
C10_DistinctIds ==
    \A i, j \in 1 .. Len(messages) :
        i # j => messages[i].id # messages[j].id

\* the last two turns are a user turn with the given content and an
\* assistant turn with the given content and provider
EndsWithExchange(turns, userContent, text, providerId) ==
    /\ Len(turns) >= 2
    /\ turns[Len(turns) - 1].role = "user"
    /\ turns[Len(turns) - 1].content = userContent
    /\ turns[Len(turns)].role = "assistant"
    /\ turns[Len(turns)].content = text
    /\ turns[Len(turns)].provider = providerId

\* the user turn the call of request r put into its request body
OwnTurn(r) == r.body.messages[Len(r.body.messages)]

\* C17 as stated: whatever happens between the call and the success
C17_Original ==
    [][ \A r \in pending, resp \in Responses :
          (r.op = "send" /\ resp.ok /\ CompleteStep(r, resp)) =>
            EndsWithExchange(messages', OwnTurn(r).content, resp.content,
                             r.providerId) ]_vars

\* C17: when an accepted sendMessage(content, providerId, credentials)
\* succeeds with no other operation in between, the last two turns are a
\* user turn holding the trimmed content and an assistant turn holding the
\* response content and tagged with the providerId passed
C17_SuccessEndsWithExchange ==
    [][ \A r \in pending, resp \in Responses :
          (Alone(r, "send") /\ resp.ok /\ CompleteStep(r, resp)) =>
            /\ lastRequest.providerId = r.providerId
            /\ EndsWithExchange(messages', Trim(lastRequest.content), resp.content,
                                lastRequest.providerId) ]_vars

\* sendMessage(" y ", "claude-3", ...) has succeeded after the greeting
C17_Witness ==
    /\ accepted = 1
    /\ pending = {}
    /\ error = null
    /\ lastRequest # NoLastRequest
    /\ lastRequest.content = << " ", "y", " " >>
    /\ Len(messages) = 3
    /\ messages[2].content = << "y" >>
    /\ messages[3].provider = "claude-3"

\* C18: sendMessage with empty or whitespace-only content changes nothing in
\* any state: turn list, error, loading flag and lastRequest stay as they
\* were and no request is issued
C18_BlankSendIsNoOp ==
    [][ \A input \in SendInputs :
          (Trim(input[1]) = << >> /\ SendMessage(input[1], input[2], input[3])) =>
            UNCHANGED << messages, error, isLoading, lastRequest, pending, issued >>
      ]_vars

\* a state in which only the blank test stands between a call and a second
\* request: one request is in flight and the callbacks still see isLoading
\* false
C18_Witness ==
    /\ accepted = 1
    /\ Cardinality(pending) = 1
    /\ isLoading
    /\ ~closure.isLoading
    /\ issued < MaxRequests
    /\ messages # << >>

\* C20: an accepted regenerateLastMessage issues a request whose messages
\* are the current turn list without its last turn and whose provider id
\* and credentials are those of the last sendMessage, and the assistant
\* turn its success adds is tagged with that provider id
C20_RegenerateReplaysLastSend ==
    [][ /\ (~RegenerateRejected /\ ~RegenerateSkipped(messages)
              /\ RegenerateLastMessage) =>
             \A r \in pending' : r.rid > issued =>
               /\ r.body.messages = SliceOffLast(messages)
               /\ lastRequest # NoLastRequest
               /\ r.body.providerId = lastRequest.providerId
               /\ r.body.apiKeys = lastRequest.apiKeys
        /\ \A r \in pending, resp \in Responses :
             (r.op = "regenerate" /\ resp.ok /\ CompleteStep(r, resp)) =>
               /\ messages' # << >>
               /\ messages'[Len(messages')].provider = r.body.providerId ]_vars

\* ---------------------------------------------------------------- provider properties
\* the credential key of each provider family
RequiredKey(company) ==
    CASE company = "OpenAI" -> "OPENAI_API_KEY"
      [] company = "Anthropic" -> "ANTHROPIC_API_KEY"
      [] company = "Google" -> "GOOGLE_AI_API_KEY"
      [] company = "Groq" -> "GROQ_API_KEY"

\* the provider id and the credential map of the call under study
CallProviderId == request.providerId.string
CallApiKeys == request.apiKeys.entries

\* a credential map cut down to one key
OnlyKey(apiKeys, key) == [ k \in DOMAIN apiKeys \cap { key } |-> apiKeys[k] ]

\* C11: for a provider id of the catalog, validateApiKeys returns true
\* exactly when the credential key of the provider's company is present and
\* not empty; the other keys of the map do not change the answer
C11_ValidatesCompanyKey ==
    (reply.fn = "validateApiKeys" /\ CallProviderId \in DOMAIN AI_PROVIDERS) =>
      LET key == RequiredKey(AI_PROVIDERS[CallProviderId].company)
      IN  /\ ~reply.result.threw
          /\ reply.result.value = (key \in DOMAIN CallApiKeys /\ CallApiKeys[key] # "")
          /\ reply.result = validateApiKeys(CallProviderId, OnlyKey(CallApiKeys, key))

\* the Anthropic provider validated with its own key set and the OpenAI
\* key present but empty
C11_Witness ==
    /\ reply.fn = "validateApiKeys"
    /\ CallProviderId = "claude-3"
    /\ CallApiKeys = [ k \in { "OPENAI_API_KEY", "ANTHROPIC_API_KEY" } |->
                         IF k = "OPENAI_API_KEY" THEN "" ELSE "sk" ]
    /\ reply.result = Returned(TRUE)

\* C12: for a provider id outside the catalog (another letter case, an
\* inherited name such as "constructor" or "toString", any other string)
\* validateApiKeys returns false and does not throw
C12_UnknownProviderIsInvalid ==
    (reply.fn = "validateApiKeys" /\ CallProviderId \notin DOMAIN AI_PROVIDERS) =>
      reply.result = Returned(FALSE)

\* C13: getAIModel for a catalog provider whose required key is absent or
\* empty throws an error whose message names the family's API key, and
\* constructs no SDK client
C13_MissingKeyThrows ==
    ( /\ reply.fn = "getAIModel"
      /\ CallProviderId \in DOMAIN AI_PROVIDERS
      /\ ~HasKey(CallApiKeys, RequiredKey(AI_PROVIDERS[CallProviderId].company)) ) =>
      /\ reply.result.outcome.threw
      /\ includes(reply.result.outcome.error.message, "API key")
      /\ includes(reply.result.outcome.error.message,
                  AI_PROVIDERS[CallProviderId].company)
      /\ reply.result.clients = << >>

\* getAIModel has thrown for the Google provider with an empty Google key
\* while the other families' keys are set
C13_Witness ==
    /\ reply.fn = "getAIModel"
    /\ CallProviderId = "gemini-pro"
    /\ CallApiKeys = [ k \in CredentialKeys |->
                         IF k = "GOOGLE_AI_API_KEY" THEN "" ELSE "sk" ]
    /\ reply.result.outcome.threw

\* ---------------------------------------------------------------- route properties
\* a field of the body is missing: absent, null or the empty string
Missing(v) == v.type \in { "undefined", "null" } \/ v = JsonString("")

\* the four validation failures of a request body, in the order of the handler
BadMessages(body) ==
    Missing(body.messages) \/ body.messages.type # "array"
      \/ body.messages.items = << >>
BadProviderId(body) == Missing(body.providerId)
BadApiKeys(body) == Missing(body.apiKeys) \/ typeof(body.apiKeys) # "object"
BadCredentials(body) ==
    validateApiKeys(body.providerId.string, Properties(body.apiKeys)) = Returned(FALSE)

\* the body passes the four validations
Validated(body) ==
    /\ ~BadMessages(body) /\ ~BadProviderId(body) /\ ~BadApiKeys(body)
    /\ validateApiKeys(body.providerId.string, Properties(body.apiKeys)) = Returned(TRUE)

C15_GenerationFailureStatus ==
    (reply.fn = "POST" /\ Validated(request) /\ reply.generation.threw) =>
      LET e == reply.generation.error
      IN  reply.result.status =
            IF InstanceOfError(e) /\ includes(e.message, "API key") THEN 401 ELSE 500

\* a validated request whose backend rejected the credential was answered 401
C15_Witness ==
    /\ reply.fn = "POST"
    /\ Validated(request)
    /\ reply.generation = Thrown("Error", "Incorrect API key provided")
    /\ reply.result.status = 401

\* ---------------------------------------------------------------- end-to-end properties
\* the steps in which the handler's answer completes request r
ServeStep(r, generation) == r \notin pending' /\ Serve(r, generation)

\* the request names a catalog provider and its credential map lacks the
\* key of that provider's company
LacksKey(r) ==
    /\ r.body.providerId \in DOMAIN AI_PROVIDERS
    /\ ~HasKey(r.body.apiKeys, RequiredKey(AI_PROVIDERS[r.body.providerId].company))

\* C16 as stated: whatever happens between the call and the completion
C16_Original ==
    [][ \A r \in pending, generation \in Generations :
          (r.op = "send" /\ LacksKey(r) /\ ServeStep(r, generation)) =>
            /\ messages' = r.prev
            /\ includes(error', r.providerId) ]_vars

\* C16: a sendMessage for a catalog provider whose key the credential map
\* lacks, completed with no other operation in between, leaves the
\* ConversationState as it was before the call and sets an error that
\* contains the provider id
C16_MissingKeyRollsBack ==
    [][ \A r \in pending, generation \in Generations :
          (Alone(r, "send") /\ LacksKey(r) /\ ServeStep(r, generation)) =>
            /\ messages' = r.prev
            /\ includes(error', r.providerId) ]_vars

\* the send for claude-3 without credentials has completed: the greeting is
\* all that is left and the error names the provider
C16_Witness ==
    /\ accepted = 1
    /\ pending = {}
    /\ lastRequest # NoLastRequest
    /\ lastRequest.apiKeys = NoApiKeys
    /\ messages = << Greeting >>
    /\ error = "API key not configured for provider: claude-3"

\* the (role, content) pairs of a turn list
Pairs(turns) ==
    [ i \in 1 .. Len(turns) |-> [ role |-> turns[i].role, content |-> turns[i].content ] ]

\* C19: the messages an accepted sendMessage makes the handler pass to the
\* generation backend are the (role, content) pairs of the ConversationState
\* before the call, in order, followed by the new user turn
C19_BackendSeesHistoryThenUserTurn ==
    [][ \A input \in SendInputs :
          (~SendRejected(input[1]) /\ SendMessage(input[1], input[2], input[3])) =>
            \A r \in pending' : r.rid > issued =>
              \A generation \in Generations :
                LET calls == POST(Json(r.body), generation).calls
                IN  \A i \in DOMAIN calls :
                      calls[i].messages =
                        Pairs(messages)
                          \o << [ role |-> "user", content |-> Trim(input[1]) ] >> ]_vars

\* a send with valid credentials was served and the backend's text appended
C19_Witness ==
    /\ accepted = 1
    /\ pending = {}
    /\ lastRequest # NoLastRequest
    /\ lastRequest.apiKeys = DEMO_API_KEYS
    /\ Len(messages) = 3
    /\ messages[1] = Greeting
    /\ messages[3].content = << "h", "i" >>

\* ---------------------------------------------------------------- regenerate and clear properties
\* the last turn of a turn list is an assistant turn, if there is one
EndsWithAssistant(turns) == turns = << >> \/ turns[Len(turns)].role = "assistant"

\* C21: every turn regenerateLastMessage deletes, when its call is accepted
\* and when its response arrives, is an assistant turn
C21_RegenerateDeletesOnlyAssistantTurns ==
    [][ /\ (~RegenerateRejected /\ ~RegenerateSkipped(messages)
              /\ RegenerateLastMessage) => EndsWithAssistant(messages)
        /\ \A r \in pending, resp \in Responses :
             (r.op = "regenerate" /\ resp.ok /\ CompleteStep(r, resp)) =>
               EndsWithAssistant(messages) ]_vars

\* C22: every accepted call whose request is answered is followed by the
\* loading flag being false again; a failure leaves a non-null error at that
\* point, and the callbacks accept a new sendMessage again
C22_BackToIdle ==
    /\ \A rid \in 1 .. MaxRequests : InFlight(rid) ~> (~InFlight(rid) /\ ~isLoading)
    /\ [][ \A r \in pending, resp \in Responses :
             (~resp.ok /\ CompleteStep(r, resp)) => (error' # null /\ ~isLoading')
         ]_vars
    /\ ~isLoading ~> (~isLoading /\ ~SendRejected(<< "x" >>))

\* two requests have failed, the hook is idle and re-rendered with the
\* error of the second
C22_Witness ==
    /\ accepted = 2
    /\ pending = {}
    /\ messages = << >>
    /\ error # null
    /\ ~isLoading
    /\ closure = [ isLoading |-> FALSE, lastRequest |-> lastRequest ]
    /\ lastRequest # NoLastRequest

\* the numbers of the requests in flight
RequestIds(reqs) == { r.rid : r \in reqs }

SdkFamily(company) ==
    CASE company = "OpenAI" -> "openai"
      [] company = "Anthropic" -> "anthropic"
      [] company = "Google" -> "google"
      [] company = "Groq" -> "groq"

\* C24: for a catalog provider whose required credential is present,
\* getAIModel constructs exactly one client: that of the company's SDK
\* family, for the first entry of the descriptor's models, with the supplied
\* credential as API key
C24_FirstModelOfFamily ==
    ( /\ reply.fn = "getAIModel"
      /\ CallProviderId \in DOMAIN AI_PROVIDERS
      /\ HasKey(CallApiKeys, RequiredKey(AI_PROVIDERS[CallProviderId].company)) ) =>
      LET provider == AI_PROVIDERS[CallProviderId]
          handle == [ sdk |-> SdkFamily(provider.company),
                      modelId |-> Head(provider.models),
                      settings |->
                        [ apiKey |-> CallApiKeys[RequiredKey(provider.company)] ] ]
      IN  /\ reply.result.outcome = Returned(handle)
          /\ reply.result.clients = << handle >>

\* the vision provider resolved with only the OpenAI key set
C24_Witness ==
    /\ reply.fn = "getAIModel"
    /\ CallProviderId = "gpt-4-vision"
    /\ CallApiKeys = [ k \in { "OPENAI_API_KEY" } |-> "sk" ]
    /\ ~reply.result.outcome.threw
    /\ reply.result.outcome.value.modelId = "gpt-4-vision-preview"

\* ---------------------------------------------------------------- chat interface properties
\* C25: when a message submitted through handleSend fails, with nothing
\* typed and no other operation in between, the text field holds the
\* submitted text again and the error is set
C25_InputRestoredOnFailure ==
    [][ \A r \in pending, resp \in Responses :
          (Alone(r, "send") /\ ~resp.ok /\ CompleteStep(r, resp)) =>
            /\ Trim(inputText') = OwnTurn(r).content
            /\ error' # null ]_vars

\* ---------------------------------------------------------------- unknown providers
\* two error texts say the same thing about two provider ids: they are one
\* wording followed by the respective id
SameWording(text1, id1, text2, id2) ==
    \E n \in 0 .. Len(text1) :
        /\ Len(text1) = n + Len(id1)
        /\ Len(text2) = n + Len(id2)
        /\ SubSeq(text1, 1, n) = SubSeq(text2, 1, n)
        /\ SubSeq(text1, n + 1, Len(text1)) = id1
        /\ SubSeq(text2, n + 1, Len(text2)) = id2

\* the answer to the same request naming a catalog provider and carrying
\* no credential
MissingCredentialAnswer(body, known, generation) ==
    POST([ body EXCEPT !.providerId = JsonString(known),
                       !.apiKeys = JsonObject(NoApiKeys) ], generation)

\* C26: a request that names a provider id outside the catalog is answered
\* differently, in status or in the wording of the error, from a request
\* whose known provider lacks its credential
C26_UnknownProviderIsTold ==
    ( /\ reply.fn = "POST"
      /\ ~BadMessages(request) /\ ~BadProviderId(request) /\ ~BadApiKeys(request)
      /\ request.providerId.string \notin DOMAIN AI_PROVIDERS ) =>
      \A known \in DOMAIN AI_PROVIDERS :
        LET missing == MissingCredentialAnswer(request, known, reply.generation)
        IN  \/ reply.result.status # missing.status
            \/ ~SameWording(reply.result.error, request.providerId.string,
                            missing.error, known)

\* ---------------------------------------------------------------- validation and resolver
\* the resolver's errors: unknown provider, unsupported provider, missing
\* credential
ResolverErrors ==
    { "Unknown provider: " \o id : id \in ProviderIds }
      \cup { "Unsupported provider: " \o AI_PROVIDERS[id].company :
               id \in DOMAIN AI_PROVIDERS }
      \cup { "OpenAI API key not configured", "Anthropic API key not configured",
             "Google AI API key not configured", "Groq API key not configured" }

\* C27: for every provider id and credential map validateApiKeys returns
\* true exactly when getAIModel returns a handle without throwing, and a
\* request that passes the route's validation is not answered with an
\* error of the resolver: the model handle is built and the backend called
C27_ValidationAgreesWithResolver ==
    /\ reply.fn = "validateApiKeys" =>
         ( (reply.result = Returned(TRUE))
             <=> ~getAIModel(CallProviderId, CallApiKeys).outcome.threw )
    /\ reply.fn = "getAIModel" =>
         ( ~reply.result.outcome.threw
             <=> (validateApiKeys(CallProviderId, CallApiKeys) = Returned(TRUE)) )
    /\ (reply.fn = "POST" /\ Validated(request)) =>
         /\ Len(reply.result.calls) = 1
         /\ reply.result.error \notin ResolverErrors

\* validation has returned true for the Groq provider, whose key is the
\* only one set
C27_Witness ==
    /\ reply.fn = "validateApiKeys"
    /\ CallProviderId \in DOMAIN AI_PROVIDERS
    /\ AI_PROVIDERS[CallProviderId].company = "Groq"
    /\ CallApiKeys = [ k \in CredentialKeys |->
                         IF k = "GROQ_API_KEY" THEN "sk" ELSE "" ]
    /\ reply.result = Returned(TRUE)

\* ---------------------------------------------------------------- clear while sending
\* C28: when clearMessages ran while the request of a sendMessage was in
\* flight, the turn list after the completion of that request is empty if
\* the request failed and a single assistant turn if it succeeded
C28_CompletionAfterClear ==
    [][ \A r \in pending, resp \in Responses :
          (r.op = "send" /\ r.cleared /\ CompleteStep(r, resp)) =>
            IF resp.ok THEN Roles(messages') = << "assistant" >>
                       ELSE messages' = << >> ]_vars

\* the same for a send that was alone in flight from its call to its
\* completion: no other call was accepted in between, only clears
ClearedSendInSingleFlight ==
    [][ \A r \in pending, resp \in Responses :
          (r.op = "send" /\ r.cleared /\ r.idle /\ issued = r.rid
             /\ CompleteStep(r, resp)) =>
            IF resp.ok THEN Roles(messages') = << "assistant" >>
                       ELSE messages' = << >> ]_vars

\* ---------------------------------------------------------------- rollback
\* the turn list without its i-th turn
WithoutTurn(turns, i) == SubSeq(turns, 1, i - 1) \o SubSeq(turns, i + 1, Len(turns))

\* C29: the rollback of a failed sendMessage removes the user turn that the
\* call of this request appended, found by its id, and no other turn; it
\* removes nothing when that turn is not in the list any more
C29_RollbackRemovesOwnTurn ==
    [][ \A r \in pending, resp \in Responses :
          (r.op = "send" /\ ~resp.ok /\ CompleteStep(r, resp)) =>
            IF \E i \in DOMAIN messages : messages[i].id = OwnTurn(r).id
              THEN \E i \in DOMAIN messages :
                     /\ messages[i] = OwnTurn(r)
                     /\ messages' = WithoutTurn(messages, i)
              ELSE messages' = messages ]_vars

\* ---------------------------------------------------------------- remembered request
\* the provider id and the credentials of a remembered request
Parameters(remembered) ==
    IF remembered = NoLastRequest THEN NoLastRequest
    ELSE [ providerId |-> remembered.providerId, apiKeys |-> remembered.apiKeys ]

\* C30: the remembered request holds the provider id and the credentials of
\* the most recently accepted sendMessage since construction or the last
\* clearMessages: it is null at construction and after clearMessages, an
\* accepted sendMessage sets it to its arguments, and completions (also the
\* failure that rolls the user turn back) and regenerateLastMessage leave it
\* alone; a regenerateLastMessage accepted when nothing is in flight sends
\* its request with the remembered provider id and credentials
C30_RemembersLastSend ==
    [][ /\ \A input \in SendInputs :
             (~SendRejected(input[1]) /\ SendMessage(input[1], input[2], input[3])) =>
               Parameters(lastRequest') =
                 [ providerId |-> input[2], apiKeys |-> input[3] ]
        /\ ClearMessages => lastRequest' = NoLastRequest
        /\ \A r \in pending, resp \in Responses :
             Complete(r, resp) => lastRequest' = lastRequest
        /\ RegenerateLastMessage =>
             /\ lastRequest' = lastRequest
             /\ (pending = {} /\ pending' # {}) =>
                  \A r \in pending' :
                    [ providerId |-> r.body.providerId, apiKeys |-> r.body.apiKeys ]
                      = Parameters(lastRequest) ]_vars

====
